---------------------------- MODULE Spec2Model ----------------------------
(***************************************************************************)
(* The S3File handle of src/S3File.cc as a state machine.  One handle, the *)
(* calls made on it one after the other (the hosting layer serialises the  *)
(* calls of one open file), and the requests each call sends to the remote *)
(* store.  Every request's outcome is an input of the call.                *)
(***************************************************************************)
EXTENDS Integers, Sequences, FiniteSets, TLC

VARIABLES
    m_ai,            \* S3File::m_ai, the resolved access info (its bucket name)
    m_object,        \* S3File::m_object
    content_length,  \* S3File::content_length
    last_modified,   \* S3File::last_modified
    write_buffer,    \* S3File::write_buffer
    partNumber,      \* S3File::partNumber
    eTags,           \* S3File::eTags
    uploadId,        \* S3File::uploadId
    last,            \* the last call: op, arguments, result, requests sent
    hist,            \* the calls so far, kept by the specifications that watch them
    ncalls           \* the number of calls made so far

vars == <<m_ai, m_object, content_length, last_modified, write_buffer,
          partNumber, eTags, uploadId, last, hist, ncalls>>

(***************************************************************************)
(* Bounds of the model.                                                    *)
(***************************************************************************)
MaxCalls == 4
MaxUploadCalls == 4

(***************************************************************************)
(* errno values and the flush threshold.                                   *)
(***************************************************************************)
EPERM == 1
ENOENT == 2
EIO == 5
EINVAL == 22
Threshold == 100000000

(***************************************************************************)
(* Byte strings.  A byte string is a sequence of runs [c, n]: n >= 1       *)
(* copies of the byte c, adjacent runs holding different bytes, so that    *)
(* two byte strings are equal exactly when their run sequences are.        *)
(***************************************************************************)
Fill(c, n) == IF n = 0 THEN <<>> ELSE <<[c |-> c, n |-> n]>>

RECURSIVE Length(_)
Length(b) == IF b = <<>> THEN 0 ELSE Head(b).n + Length(Tail(b))

\* std::string::operator+=
Append2(a, b) ==
    IF a = <<>> THEN b
    ELSE IF b = <<>> THEN a
    ELSE IF a[Len(a)].c = b[1].c
         THEN SubSeq(a, 1, Len(a) - 1)
              \o <<[c |-> b[1].c, n |-> a[Len(a)].n + b[1].n]>>
              \o Tail(b)
         ELSE a \o b

(***************************************************************************)
(* Text (response blobs, ETags, decimal numbers) is a sequence of          *)
(* one-character strings, indexed from 0 as std::string is.  A size_t is   *)
(* kept as the integer congruent to it mod 2^64 of smallest magnitude, so  *)
(* npos is -1 and npos + 7 is 6, as in the unsigned arithmetic.            *)
(***************************************************************************)
npos == 0 - 1

At(s, i) == s[i + 1]

Matches(s, pat, i) ==
    /\ i + Len(pat) <= Len(s)
    /\ \A k \in 0..(Len(pat) - 1) : At(s, i + k) = At(pat, k)

\* std::string::find(pat, pos)
Find(s, pat, pos) ==
    LET from == IF pos < 0 THEN Len(s) + 1 ELSE pos
        hits == {i \in from..Len(s) : Matches(s, pat, i)}
    IN IF hits = {} THEN npos
       ELSE CHOOSE i \in hits : \A j \in hits : i <= j

\* std::string::substr(pos, n) throws std::out_of_range when pos > size()
SubstrThrows(s, pos) == pos < 0 \/ pos > Len(s)

\* std::string::substr(pos, n), n clipped to the rest of the string
Substr(s, pos, n) ==
    LET rest == Len(s) - pos
        cnt == IF n < 0 \/ n > rest THEN rest ELSE n
    IN SubSeq(s, pos + 1, pos + cnt)

Digit(d) == CASE d = 0 -> "0" [] d = 1 -> "1" [] d = 2 -> "2" [] d = 3 -> "3"
              [] d = 4 -> "4" [] d = 5 -> "5" [] d = 6 -> "6" [] d = 7 -> "7"
              [] d = 8 -> "8" [] d = 9 -> "9"

\* std::to_string(int), for n >= 0
RECURSIVE to_string(_)
to_string(n) == IF n < 10 THEN <<Digit(n)>>
                ELSE to_string(n \div 10) \o <<Digit(n % 10)>>

(***************************************************************************)
(* The remote store.  A request either succeeds (ok) or fails with an HTTP *)
(* status, 0 when the transport failed before any status arrived.          *)
(***************************************************************************)
HeadFailCodes == {0, 403, 404, 500, 503}
UploadFailCodes == {403}

Failed(codes) == {[ok |-> FALSE, code |-> c, result |-> <<>>] : c \in codes}

ETagTok == <<"E", "T", "a", "g", ":">>
Quote == <<"\"">>
CRLF == <<"\r", "\n">>
StatusLine == <<"H", "T", "T", "P", "/", "1", ".", "1", " ", "2", "0", "0",
                " ", "O", "K">> \o CRLF

\* MultipartInit: on success exposes an upload identifier
UploadIds == {"u1"}
InitOutcomes ==
    {[ok |-> TRUE, code |-> 200, result |-> u] : u \in UploadIds}
    \cup Failed(UploadFailCodes)

\* MultipartPartUpload: on success exposes a response containing an ETag token.
\* The store derives the token from the part's body (here from its length).
StoreETag(b) == <<"h">> \o to_string(Length(b) \div 1000000)
                \o <<"-">> \o to_string(Length(b) % 1000000)
PartResponse(b) ==
    StatusLine \o ETagTok \o <<" ">> \o Quote \o StoreETag(b) \o Quote \o CRLF
PartOutcomes(b) ==
    {[ok |-> TRUE, code |-> 200, result |-> PartResponse(b)]}
    \cup Failed(UploadFailCodes)

\* MultipartComplete
CompleteOutcomes ==
    {[ok |-> TRUE, code |-> 200, result |-> <<>>]} \cup Failed(UploadFailCodes)

\* the outcome of a request that the call does not send
NotSent == [ok |-> TRUE, code |-> 0, result |-> <<>>]

(***************************************************************************)
(* S3File::SendPart on buffer b, part number pn, ETags ets and upload id   *)
(* uid: the request sent, the return value and the members it leaves.      *)
(* The return value is write_buffer.length() as an int; lengths here stay  *)
(* below 2^31, where that conversion changes nothing.                      *)
(***************************************************************************)
\* an extraction that starts one character early, at the opening quote
ExtractETag_FromQuote(resultString) ==
    LET startPos == Find(resultString, ETagTok, 0)
        endPos == Find(resultString, Quote, startPos + 7)
    IN Substr(resultString, startPos + 6, endPos - startPos - 6)

ExtractETag(resultString) ==
    LET startPos == Find(resultString, ETagTok, 0)
        endPos == Find(resultString, Quote, startPos + 7)
    IN Substr(resultString, startPos + 7, endPos - startPos - 7)

\* a SendPart that counts the part and drops the buffer before it knows
\* whether the request succeeded
SendPart_CommitsEarly(b, pn, ets, uid, out) ==
    [ret |-> IF out.ok THEN Length(b) ELSE 0 - ENOENT,
     write_buffer |-> <<>>, partNumber |-> pn + 1,
     eTags |-> IF out.ok THEN Append(ets, ExtractETag(out.result)) ELSE ets,
     reqs |-> <<[kind |-> "part", bucket |-> m_ai.bucket, object |-> m_object,
                 body |-> b, partNumber |-> to_string(pn), uploadId |-> uid,
                 ok |-> out.ok, code |-> out.code]>>]

\* a flush that puts the new ETag in front of the earlier ones
SendPart_PrependsETag(b, pn, ets, uid, out) ==
    LET req == [kind |-> "part", bucket |-> m_ai.bucket, object |-> m_object,
                body |-> b, partNumber |-> to_string(pn), uploadId |-> uid,
                ok |-> out.ok, code |-> out.code]
    IN IF ~out.ok
       THEN [ret |-> 0 - ENOENT, write_buffer |-> b, partNumber |-> pn,
             eTags |-> ets, reqs |-> <<req>>]
       ELSE [ret |-> Length(b), write_buffer |-> <<>>, partNumber |-> pn + 1,
             eTags |-> <<ExtractETag(out.result)>> \o ets, reqs |-> <<req>>]

SendPart(b, pn, ets, uid, out) ==
    LET length == Length(b)
        req == [kind |-> "part", bucket |-> m_ai.bucket, object |-> m_object,
                body |-> b, partNumber |-> to_string(pn), uploadId |-> uid,
                ok |-> out.ok, code |-> out.code]
    IN IF ~out.ok
       THEN [ret |-> 0 - ENOENT, write_buffer |-> b, partNumber |-> pn,
             eTags |-> ets, reqs |-> <<req>>]
       ELSE [ret |-> length, write_buffer |-> <<>>, partNumber |-> pn + 1,
             eTags |-> Append(ets, ExtractETag(out.result)), reqs |-> <<req>>]

(***************************************************************************)
(* S3File::Write of size bytes c, with the outcomes of the initiation and  *)
(* part-upload requests it may send.                                       *)
(***************************************************************************)
\* a threshold test that also flushes a buffer of exactly the threshold
ExceedsThreshold_AtLeast(len) == len >= Threshold

ExceedsThreshold(len) == len > Threshold

\* Write from the payload's construction on, with upload id uid and the
\* requests sent so far
WriteAfterInit(size, c, uid, sent, partOut) ==
    LET payload == Fill(c, size)
        payload_size == Length(payload)
        buf == Append2(write_buffer, payload)
        sp == SendPart(buf, partNumber, eTags, uid, partOut)
    IN IF payload_size # size
       THEN [ret |-> 0 - ENOENT, write_buffer |-> write_buffer,
             partNumber |-> partNumber, eTags |-> eTags, uploadId |-> uid,
             reqs |-> sent]
       ELSE IF ExceedsThreshold(Length(buf))
       THEN [ret |-> IF sp.ret = 0 - ENOENT THEN 0 - ENOENT ELSE size,
             write_buffer |-> sp.write_buffer, partNumber |-> sp.partNumber,
             eTags |-> sp.eTags, uploadId |-> uid, reqs |-> sent \o sp.reqs]
       ELSE [ret |-> size, write_buffer |-> buf, partNumber |-> partNumber,
             eTags |-> eTags, uploadId |-> uid, reqs |-> sent]

InitRequest(initOut) ==
    [kind |-> "init", bucket |-> m_ai.bucket, object |-> m_object,
     ok |-> initOut.ok, code |-> initOut.code]

\* a Write that buffers the payload before it initiates the upload
WriteResult_BuffersBeforeInit(size, c, initOut, partOut) ==
    IF uploadId = "" /\ ~initOut.ok
    THEN [ret |-> 0 - ENOENT,
          write_buffer |-> Append2(write_buffer, Fill(c, size)),
          partNumber |-> partNumber, eTags |-> eTags,
          uploadId |-> uploadId, reqs |-> <<InitRequest(initOut)>>]
    ELSE WriteAfterInit(size, c, IF uploadId = "" THEN initOut.result ELSE uploadId,
                        IF uploadId = "" THEN <<InitRequest(initOut)>> ELSE <<>>,
                        partOut)

\* a Write that initiates the upload only when it is about to flush
WriteResult_InitiatesOnFlush(size, c, initOut, partOut) ==
    IF uploadId = "" /\ ~ExceedsThreshold(Length(write_buffer) + size)
    THEN WriteAfterInit(size, c, uploadId, <<>>, partOut)
    ELSE IF uploadId = ""
    THEN IF ~initOut.ok
         THEN [ret |-> 0 - ENOENT, write_buffer |-> write_buffer,
               partNumber |-> partNumber, eTags |-> eTags,
               uploadId |-> uploadId, reqs |-> <<InitRequest(initOut)>>]
         ELSE WriteAfterInit(size, c, initOut.result, <<InitRequest(initOut)>>,
                             partOut)
    ELSE WriteAfterInit(size, c, uploadId, <<>>, partOut)

\* a Write that sends the initiation request on every call
WriteResult_AlwaysInitiates(size, c, initOut, partOut) ==
    IF ~initOut.ok
    THEN [ret |-> 0 - ENOENT, write_buffer |-> write_buffer,
          partNumber |-> partNumber, eTags |-> eTags,
          uploadId |-> uploadId, reqs |-> <<InitRequest(initOut)>>]
    ELSE WriteAfterInit(size, c,
                        IF uploadId = "" THEN initOut.result ELSE uploadId,
                        <<InitRequest(initOut)>>, partOut)

WriteResult(size, c, initOut, partOut) ==
    IF uploadId = ""
    THEN IF ~initOut.ok
         THEN [ret |-> 0 - ENOENT, write_buffer |-> write_buffer,
               partNumber |-> partNumber, eTags |-> eTags,
               uploadId |-> uploadId, reqs |-> <<InitRequest(initOut)>>]
         ELSE WriteAfterInit(size, c, initOut.result, <<InitRequest(initOut)>>,
                             partOut)
    ELSE WriteAfterInit(size, c, uploadId, <<>>, partOut)

(***************************************************************************)
(* S3File::Close, with the outcomes of the part-upload and completion      *)
(* requests it may send.                                                   *)
(***************************************************************************)
\* a Close that finalizes whatever the part counter says
NeedsFinalize_Always(pn) == pn >= 1

NeedsFinalize(pn) == pn > 1

\* a Close that goes on to the completion step after a failed flush
CloseResult_IgnoresFlushFailure(partOut, completeOut) ==
    LET none == [ret |-> 0, write_buffer |-> write_buffer,
                 partNumber |-> partNumber, eTags |-> eTags, reqs |-> <<>>]
        sp == IF Length(write_buffer) > 0
              THEN SendPart(write_buffer, partNumber, eTags, uploadId, partOut)
              ELSE none
        completeReq == [kind |-> "complete", bucket |-> m_ai.bucket,
                        object |-> m_object, eTags |-> sp.eTags,
                        partNumber |-> sp.partNumber, uploadId |-> uploadId,
                        ok |-> completeOut.ok, code |-> completeOut.code]
    IN IF NeedsFinalize(sp.partNumber)
       THEN [sp EXCEPT !.ret = IF completeOut.ok THEN 0 ELSE 0 - ENOENT,
                       !.reqs = sp.reqs \o <<completeReq>>]
       ELSE [sp EXCEPT !.ret = 0]

CloseResult(partOut, completeOut) ==
    LET none == [ret |-> 0, write_buffer |-> write_buffer,
                 partNumber |-> partNumber, eTags |-> eTags, reqs |-> <<>>]
        sp == IF Length(write_buffer) > 0
              THEN SendPart(write_buffer, partNumber, eTags, uploadId, partOut)
              ELSE none
        completeReq == [kind |-> "complete", bucket |-> m_ai.bucket,
                        object |-> m_object, eTags |-> sp.eTags,
                        partNumber |-> sp.partNumber, uploadId |-> uploadId,
                        ok |-> completeOut.ok, code |-> completeOut.code]
    IN IF Length(write_buffer) > 0 /\ sp.ret = 0 - ENOENT
       THEN sp
       ELSE IF NeedsFinalize(sp.partNumber)
       THEN [sp EXCEPT !.ret = IF completeOut.ok THEN 0 ELSE 0 - ENOENT,
                       !.reqs = sp.reqs \o <<completeReq>>]
       ELSE [sp EXCEPT !.ret = 0]

(***************************************************************************)
(* Text helpers of stl_string_utils and of the C and C++ libraries that    *)
(* S3File::Fstat uses on the header block.                                 *)
(***************************************************************************)
substring(str, left, right) ==
    IF right = npos THEN Substr(str, left, npos)
    ELSE Substr(str, left, right - left)

IsSpace(ch) == ch \in {" ", "\t", "\r", "\n"}

RECURSIVE TrimLeft(_)
TrimLeft(s) == IF s # <<>> /\ IsSpace(Head(s)) THEN TrimLeft(Tail(s)) ELSE s

RECURSIVE TrimRight(_)
TrimRight(s) == IF s # <<>> /\ IsSpace(s[Len(s)])
                THEN TrimRight(SubSeq(s, 1, Len(s) - 1)) ELSE s

trim(s) == TrimRight(TrimLeft(s))

UpperCase == <<"A", "B", "C", "D", "E", "F", "G", "H", "I", "J", "K", "L", "M",
      "N", "O", "P", "Q", "R", "S", "T", "U", "V", "W", "X", "Y", "Z">>
LowerCase == <<"a", "b", "c", "d", "e", "f", "g", "h", "i", "j", "k", "l", "m",
      "n", "o", "p", "q", "r", "s", "t", "u", "v", "w", "x", "y", "z">>

toLowerChar(ch) ==
    IF \E i \in 1..Len(UpperCase) : UpperCase[i] = ch
    THEN LowerCase[CHOOSE i \in 1..Len(UpperCase) : UpperCase[i] = ch]
    ELSE ch

toLower(s) == [i \in 1..Len(s) |-> toLowerChar(s[i])]

Digits == <<"0", "1", "2", "3", "4", "5", "6", "7", "8", "9">>
IsDigit(ch) == \E d \in 1..10 : Digits[d] = ch
DigitValue(ch) == (CHOOSE d \in 1..10 : Digits[d] = ch) - 1

RECURSIVE LeadingDigits(_)
LeadingDigits(s) == IF s # <<>> /\ IsDigit(Head(s))
                    THEN <<Head(s)>> \o LeadingDigits(Tail(s)) ELSE <<>>

RECURSIVE Decimal(_)
Decimal(ds) == IF ds = <<>> THEN 0
               ELSE 10 * Decimal(SubSeq(ds, 1, Len(ds) - 1)) + DigitValue(ds[Len(ds)])

\* std::stol: leading blanks, an optional sign, then the digits; what follows
\* the digits is not looked at; no digit at all throws std::invalid_argument
stol(value) ==
    LET s == TrimLeft(value)
        neg == s # <<>> /\ Head(s) = "-"
        signed == s # <<>> /\ Head(s) \in {"-", "+"}
        ds == LeadingDigits(IF signed THEN Tail(s) ELSE s)
    IN IF ds = <<>> THEN [thrown |-> TRUE, val |-> 0]
       ELSE [thrown |-> FALSE, val |-> IF neg THEN 0 - Decimal(ds) ELSE Decimal(ds)]

\* strptime(value, "%a, %d %b %Y %T %Z") and timegm on the dates of the model.
\* The blank of the format takes any blanks; %Z takes a zone name where the C
\* library parses one (zone) and nothing where it does not (glibc).  The result
\* is the number of characters consumed, npos for a null pointer.
DateTime == <<"W", "e", "d", ",", " ", "2", "1", " ", "O", "c", "t", " ", "2",
      "0", "1", "5", " ", "0", "7", ":", "2", "8", ":", "0", "0">>
DateEpoch == 1445412480
ZoneName == <<"G", "M", "T">>

strptime(value, zone) ==
    IF ~Matches(value, DateTime, 0) THEN npos
    ELSE LET rest == Substr(value, Len(DateTime), npos)
             afterBlanks == TrimLeft(rest)
             at == Len(value) - Len(afterBlanks)
         IN IF ~zone THEN at
            ELSE IF Matches(afterBlanks, ZoneName, 0) THEN at + Len(ZoneName)
            ELSE npos

timegm(value) == DateEpoch

(***************************************************************************)
(* The header loop of S3File::Fstat from position current_newline on, with *)
(* content_length cl and last_modified lm so far.                          *)
(***************************************************************************)
ParseLine(line, cl, lm, zone) ==
    LET colon == Find(line, <<":">>, 0)
        same == [thrown |-> FALSE, cl |-> cl, lm |-> lm]
    IN IF colon # npos /\ colon # Len(line)
       THEN LET attr == toLower(substring(line, 0, colon))
                value == trim(substring(line, colon + 1, npos))
            IN IF attr = <<"c", "o", "n", "t", "e", "n", "t", "-", "l", "e", "n", "g", "t", "h">>
               THEN IF stol(value).thrown THEN [same EXCEPT !.thrown = TRUE]
                    ELSE [same EXCEPT !.cl = stol(value).val]
               ELSE IF attr = <<"l", "a", "s", "t", "-", "m", "o", "d", "i", "f", "i", "e", "d">>
               THEN LET eos == strptime(value, zone)
                        epoch == timegm(value)
                    IN IF eos = Len(value) /\ epoch # 0 - 1
                       THEN [same EXCEPT !.lm = epoch]
                       ELSE same
               ELSE same
       ELSE same

RECURSIVE ParseHeaders(_, _, _, _, _)
ParseHeaders(headers, current_newline, cl, lm, zone) ==
    IF current_newline = npos \/ current_newline = Len(headers) - 1
    THEN [thrown |-> FALSE, cl |-> cl, lm |-> lm]
    ELSE LET next_newline == Find(headers, CRLF, current_newline + 2)
         IN IF SubstrThrows(headers, current_newline + 2)
            THEN [thrown |-> TRUE, cl |-> cl, lm |-> lm]
            ELSE LET r == ParseLine(substring(headers, current_newline + 2,
                                              next_newline), cl, lm, zone)
                 IN IF r.thrown THEN r
                    ELSE ParseHeaders(headers, next_newline, r.cl, r.lm, zone)

(***************************************************************************)
(* S3File::Open.  The resolver's answer (parsePath's return value, the     *)
(* access info or none, the object) and the probe's outcome are inputs.    *)
(***************************************************************************)
O_WRONLY == 1
O_CREAT == 64
O_APPEND == 1024

NoAccessInfo == [bucket |-> "(null)"]

Resolutions ==
    {[rv |-> 0 - ENOENT, ai |-> NoAccessInfo, object |-> ""],
     [rv |-> 0, ai |-> NoAccessInfo, object |-> "o1"],
     [rv |-> 0, ai |-> [bucket |-> ""], object |-> "o1"],
     [rv |-> 0, ai |-> [bucket |-> "b1"], object |-> "o1"],
     [rv |-> 0, ai |-> [bucket |-> "b2"], object |-> "o2"]}

OpenFlags == {0, O_WRONLY + O_CREAT, O_WRONLY + O_APPEND}

\* an Open that never probes
IsReadOpen_Never(Oflag) == FALSE

IsReadOpen(Oflag) == Oflag = 0

\* an Open that stores the access info and the object once the probe passed
OpenResult_AssignsAfterProbe(res, Oflag, headOut) ==
    LET same == [ret |-> 0, m_ai |-> m_ai, m_object |-> m_object, reqs |-> <<>>]
        headReq == [kind |-> "head", bucket |-> res.ai.bucket,
                    object |-> res.object, ok |-> headOut.ok, code |-> headOut.code]
    IN IF res.rv # 0 THEN [same EXCEPT !.ret = res.rv]
       ELSE IF res.ai = NoAccessInfo THEN [same EXCEPT !.ret = 0 - ENOENT]
       ELSE IF res.ai.bucket = "" THEN [same EXCEPT !.ret = 0 - EINVAL]
       ELSE IF IsReadOpen(Oflag) /\ ~headOut.ok
       THEN [same EXCEPT !.ret = 0 - ENOENT, !.reqs = <<headReq>>]
       ELSE [ret |-> 0, m_ai |-> res.ai, m_object |-> res.object,
             reqs |-> IF IsReadOpen(Oflag) THEN <<headReq>> ELSE <<>>]

OpenResult(res, Oflag, headOut) ==
    LET same == [ret |-> 0, m_ai |-> m_ai, m_object |-> m_object, reqs |-> <<>>]
        headReq == [kind |-> "head", bucket |-> res.ai.bucket,
                    object |-> res.object, ok |-> headOut.ok, code |-> headOut.code]
    IN IF res.rv # 0 THEN [same EXCEPT !.ret = res.rv]
       ELSE IF res.ai = NoAccessInfo THEN [same EXCEPT !.ret = 0 - ENOENT]
       ELSE IF res.ai.bucket = "" THEN [same EXCEPT !.ret = 0 - EINVAL]
       ELSE IF IsReadOpen(Oflag)
       THEN [ret |-> IF headOut.ok THEN 0 ELSE 0 - ENOENT,
             m_ai |-> res.ai, m_object |-> res.object, reqs |-> <<headReq>>]
       ELSE [ret |-> 0, m_ai |-> res.ai, m_object |-> res.object, reqs |-> <<>>]

(***************************************************************************)
(* S3File::Read.  memcpy copies the whole body whatever `size` is: a body  *)
(* longer than size runs over the caller's buffer, which is undefined      *)
(* behaviour (overrun): the call returns the body's length or the process  *)
(* dies.                                                                   *)
(***************************************************************************)
ReadResult(offset, size, out) ==
    LET req == [kind |-> "get", bucket |-> m_ai.bucket, object |-> m_object,
                offset |-> offset, size |-> size, ok |-> out.ok, code |-> out.code]
    IN IF ~out.ok
       THEN [ret |-> 0, copied |-> <<>>, overrun |-> FALSE, reqs |-> <<req>>]
       ELSE [ret |-> Length(out.result), copied |-> out.result,
             overrun |-> Length(out.result) > size, reqs |-> <<req>>]

(***************************************************************************)
(* The header blocks of the model, and the header loop run on each of them *)
(* from each value content_length and last_modified can hold.              *)
(***************************************************************************)
HdrFull == StatusLine
    \o <<"C", "o", "n", "t", "e", "n", "t", "-", "L", "e", "n", "g", "t",
      "h", ":", " ", "1", "0", "2", "4">>
    \o CRLF
    \o <<"L", "a", "s", "t", "-", "M", "o", "d", "i", "f", "i", "e", "d",
      ":", " ", "W", "e", "d", ",", " ", "2", "1", " ", "O", "c",
      "t", " ", "2", "0", "1", "5", " ", "0", "7", ":", "2", "8",
      ":", "0", "0", " ", "G", "M", "T">>
    \o CRLF \o CRLF
HdrLower == StatusLine
    \o <<"c", "o", "n", "t", "e", "n", "t", "-", "l", "e", "n", "g", "t",
      "h", ":", " ", "7">>
    \o CRLF \o CRLF
HdrBadLength == StatusLine
    \o <<"C", "o", "n", "t", "e", "n", "t", "-", "L", "e", "n", "g", "t",
      "h", ":", " ", "a", "b", "c">>
    \o CRLF \o CRLF
HdrBadDate == StatusLine
    \o <<"L", "a", "s", "t", "-", "M", "o", "d", "i", "f", "i", "e", "d",
      ":", " ", "W", "e", "d", ",", " ", "2", "1", " ", "O", "c",
      "t", " ", "2", "0", "1", "5", " ", "0", "7", ":", "2", "8",
      ":", "0", "0", " ", "G", "M", "T", "x">>
    \o CRLF \o CRLF
HeaderBlocks == {HdrFull, HdrLower, HdrBadLength, HdrBadDate}
ContentLengths == {0, 7, 1024}
LastModifieds == {0, DateEpoch}

HeaderLoop ==
    [h \in HeaderBlocks, cl \in ContentLengths, lm \in LastModifieds,
     zone \in BOOLEAN |-> ParseHeaders(h, 0, cl, lm, zone)]

(***************************************************************************)
(* S3File::Fstat.                                                          *)
(***************************************************************************)
\* the single-branch mapping of Open, Write and Close
StatusToErrno_AlwaysNotFound(httpCode) == 0 - ENOENT

StatusToErrno(httpCode) ==
    IF httpCode # 0
    THEN CASE httpCode = 404 -> 0 - ENOENT
           [] httpCode = 500 -> 0 - EIO
           [] httpCode = 403 -> 0 - EPERM
           [] OTHER -> 0 - EIO
    ELSE 0 - EIO

FstatResult(out, zone) ==
    LET req == [kind |-> "head", bucket |-> m_ai.bucket, object |-> m_object,
                ok |-> out.ok, code |-> out.code]
        same == [ret |-> 0, thrown |-> FALSE, content_length |-> content_length,
                 last_modified |-> last_modified, stat |-> <<>>, reqs |-> <<req>>]
    IN IF ~out.ok THEN [same EXCEPT !.ret = StatusToErrno(out.code)]
       ELSE LET p == HeaderLoop[out.result, content_length, last_modified, zone]
            IN IF p.thrown
               THEN [same EXCEPT !.thrown = TRUE, !.content_length = p.cl,
                                 !.last_modified = p.lm]
               ELSE [same EXCEPT !.content_length = p.cl, !.last_modified = p.lm,
                                 !.stat = <<[st_mode |-> "0600|S_IFREG",
                                             st_nlink |-> 1, st_uid |-> 1,
                                             st_gid |-> 1, st_size |-> p.cl,
                                             st_mtime |-> p.lm, st_atime |-> 0,
                                             st_ctime |-> 0, st_dev |-> 0,
                                             st_ino |-> 0]>>]

(***************************************************************************)
(* The inputs of the calls.                                                *)
(***************************************************************************)
WriteSizes == {0, 1, 60000000, 100000000}
PayloadByte(size) == IF size = 1 THEN "a" ELSE IF size = 60000000 THEN "b" ELSE "c"

ReadRanges == {[offset |-> 0, size |-> 4], [offset |-> 8, size |-> 4]}
BodyLengths == {2, 4, 5}
ReadOutcomes ==
    {[ok |-> TRUE, code |-> 206, result |-> Fill("x", n)] : n \in BodyLengths}
    \cup Failed({404})

HeadOutcomes ==
    {[ok |-> TRUE, code |-> 200, result |-> h] : h \in HeaderBlocks}
    \cup Failed(HeadFailCodes)
ProbeOutcomes ==
    {[ok |-> TRUE, code |-> 200, result |-> HdrFull]} \cup Failed(HeadFailCodes)

\* the requests a call will send in the current state
OpenProbes(res, Oflag) ==
    IF res.rv = 0 /\ res.ai # NoAccessInfo /\ res.ai.bucket # "" /\ Oflag = 0
    THEN ProbeOutcomes ELSE {NotSent}
WriteInits == IF uploadId = "" THEN InitOutcomes ELSE {NotSent}
WriteParts(size, initOut) ==
    IF (uploadId # "" \/ initOut.ok) /\ Length(write_buffer) + size > Threshold
    THEN PartOutcomes(Append2(write_buffer, Fill(PayloadByte(size), size)))
    ELSE {NotSent}
CloseParts == IF Length(write_buffer) > 0 THEN PartOutcomes(write_buffer)
              ELSE {NotSent}
CloseCompletes(partOut) ==
    IF partOut.ok /\ (partNumber > 1 \/ Length(write_buffer) > 0)
    THEN CompleteOutcomes ELSE {NotSent}

(***************************************************************************)
(* The calls.  keep tells whether the specification watches the whole      *)
(* sequence of calls (hist) or only the last one.                          *)
(***************************************************************************)
Alive == last.fault # "crash"

Record(keep, op, args, ret, reqs, fault, out) ==
    LET rec == [op |-> op, args |-> args, ret |-> ret, reqs |-> reqs,
                fault |-> fault, out |-> out]
    IN /\ last' = rec
       /\ hist' = IF keep THEN Append(hist, rec) ELSE hist
       /\ ncalls' = ncalls + 1

Open(keep, res, Oflag, headOut) ==
    /\ Alive
    /\ LET r == OpenResult(res, Oflag, headOut)
       IN /\ m_ai' = r.m_ai
          /\ m_object' = r.m_object
          /\ Record(keep, "Open", [res |-> res, Oflag |-> Oflag], r.ret, r.reqs,
                    "none", <<>>)
    /\ UNCHANGED <<content_length, last_modified, write_buffer, partNumber,
                   eTags, uploadId>>

Read(keep, offset, size, out, dies) ==
    /\ Alive
    /\ LET r == ReadResult(offset, size, out)
       IN /\ dies => r.overrun
          /\ Record(keep, "Read", [offset |-> offset, size |-> size],
                    IF dies THEN 0 ELSE r.ret, r.reqs,
                    IF dies THEN "crash" ELSE "none",
                    IF dies THEN <<>> ELSE r.copied)
    /\ UNCHANGED <<m_ai, m_object, content_length, last_modified, write_buffer,
                   partNumber, eTags, uploadId>>

Fstat(keep, out, zone) ==
    /\ Alive
    /\ LET r == FstatResult(out, zone)
       IN /\ content_length' = r.content_length
          /\ last_modified' = r.last_modified
          /\ Record(keep, "Fstat",
                    [zone |-> zone,
                     headers |-> IF out.ok THEN out.result ELSE <<>>],
                    r.ret, r.reqs,
                    IF r.thrown THEN "exception" ELSE "none", r.stat)
    /\ UNCHANGED <<m_ai, m_object, write_buffer, partNumber, eTags, uploadId>>

Write(keep, size, initOut, partOut) ==
    /\ Alive
    /\ LET r == WriteResult(size, PayloadByte(size), initOut, partOut)
       IN /\ write_buffer' = r.write_buffer
          /\ partNumber' = r.partNumber
          /\ eTags' = r.eTags
          /\ uploadId' = r.uploadId
          /\ Record(keep, "Write", [size |-> size, c |-> PayloadByte(size)],
                    r.ret, r.reqs, "none", <<>>)
    /\ UNCHANGED <<m_ai, m_object, content_length, last_modified>>

Close(keep, partOut, completeOut) ==
    /\ Alive
    /\ LET r == CloseResult(partOut, completeOut)
       IN /\ write_buffer' = r.write_buffer
          /\ partNumber' = r.partNumber
          /\ eTags' = r.eTags
          /\ Record(keep, "Close", [size |-> 0], r.ret, r.reqs, "none", <<>>)
    /\ UNCHANGED <<m_ai, m_object, content_length, last_modified, uploadId>>

(***************************************************************************)
(* S3File::S3File                                                          *)
(***************************************************************************)
Init ==
    /\ m_ai = [bucket |-> ""]
    /\ m_object = ""
    /\ content_length = 0
    /\ last_modified = 0
    /\ write_buffer = <<>>
    /\ partNumber = 1
    /\ eTags = <<>>
    /\ uploadId = ""
    /\ last = [op |-> "none", args |-> [size |-> 0], ret |-> 0, reqs |-> <<>>,
               fault |-> "none", out |-> <<>>]
    /\ hist = <<>>
    /\ ncalls = 0

DoOpen(keep, max) ==
    /\ ncalls < max
    /\ \E res \in Resolutions, Oflag \in OpenFlags :
         \E headOut \in OpenProbes(res, Oflag) : Open(keep, res, Oflag, headOut)

DoRead(keep, max) ==
    /\ ncalls < max
    /\ \E rg \in ReadRanges, out \in ReadOutcomes, dies \in BOOLEAN :
         Read(keep, rg.offset, rg.size, out, dies)

DoFstat(keep, max) ==
    /\ ncalls < max
    /\ \E out \in HeadOutcomes, zone \in BOOLEAN : Fstat(keep, out, zone)

DoWrite(keep, max) ==
    /\ ncalls < max
    /\ \E size \in WriteSizes :
         \E initOut \in WriteInits :
           \E partOut \in WriteParts(size, initOut) :
             Write(keep, size, initOut, partOut)

DoClose(keep, max) ==
    /\ ncalls < max
    /\ \E partOut \in CloseParts :
         \E completeOut \in CloseCompletes(partOut) :
           Close(keep, partOut, completeOut)

\* any calls on the handle, the last one watched
Next ==
    \/ DoOpen(FALSE, MaxCalls)
    \/ DoRead(FALSE, MaxCalls)
    \/ DoFstat(FALSE, MaxCalls)
    \/ DoWrite(FALSE, MaxCalls)
    \/ DoClose(FALSE, MaxCalls)

Spec == Init /\ [][Next]_vars

\* the upload calls of a handle, all of them watched
NextUpload ==
    \/ DoWrite(TRUE, MaxUploadCalls)
    \/ DoClose(TRUE, MaxUploadCalls)

SpecUpload == Init /\ [][NextUpload]_vars

(***************************************************************************)
(* What the claims speak of.  In a step, the unprimed variables are the    *)
(* handle before the call and last' is the call made.                      *)
(***************************************************************************)
Requests(reqs, kind) == SelectSeq(reqs, LAMBDA r : r.kind = kind)
Sends(call, kind) == Requests(call.reqs, kind) # <<>>
FailedRequest(call, kind) ==
    \E i \in 1..Len(call.reqs) : call.reqs[i].kind = kind /\ ~call.reqs[i].ok

\* C1 as claimed: Close sends a completion request if and only if partNumber > 1
\* after its flush step; no completion request is sent while partNumber is 1;
\* Close on a handle with nothing buffered and no part uploaded sends no
\* request at all and returns 0.
C1_CloseFinalizesIffParts ==
    [][last'.op = "Close" =>
         /\ Sends(last', "complete") <=> partNumber' > 1
         /\ (write_buffer = <<>> /\ partNumber = 1)
              => (last'.reqs = <<>> /\ last'.ret = 0)]_vars

\* C1 as amended: Close sends a completion request if and only if its flush
\* step did not return -ENOENT and partNumber > 1 after it; no completion
\* request is sent while partNumber is 1; Close on a handle with nothing
\* buffered and no part uploaded sends no request at all and returns 0.
C1_CloseFinalizesUnlessFlushFails ==
    [][last'.op = "Close" =>
         /\ Sends(last', "complete")
              <=> (~FailedRequest(last', "part") /\ partNumber' > 1)
         /\ Sends(last', "complete") => partNumber' > 1
         /\ (write_buffer = <<>> /\ partNumber = 1)
              => (last'.reqs = <<>> /\ last'.ret = 0)]_vars

\* a Close that flushed the remainder and then finalized
C1_Witness ==
    /\ last.op = "Close"
    /\ Len(last.reqs) = 2
    /\ last.reqs[1].kind = "part" /\ last.reqs[2].kind = "complete"
    /\ last.ret = 0

\* C2 as claimed: a second Close, made right after a Close that returned 0
\* and left no buffered data, returns 0, sends no request and changes no
\* handle state.
C2_SecondCloseIsNoOp ==
    [][(last.op = "Close" /\ last.ret = 0 /\ write_buffer = <<>>
        /\ last'.op = "Close")
         => /\ last'.ret = 0
            /\ last'.reqs = <<>>
            /\ UNCHANGED <<m_ai, m_object, content_length, last_modified,
                           write_buffer, partNumber, eTags, uploadId>>]_vars

\* C3: a failed part upload leaves writeBuffer, partNumber, eTags and
\* uploadId as they were when the request was sent (the buffer with the
\* payload appended, in a Write), so the request can be repeated with the
\* same part number and the same bytes; a failed completion request in
\* Close leaves them as the flush step left them.
C3_FailedRequestsChangeNothing ==
    [][\A i \in 1..Len(last'.reqs) :
         LET r == last'.reqs[i]
         IN /\ (r.kind = "part" /\ ~r.ok)
                 => /\ write_buffer' = r.body
                    /\ write_buffer' =
                         IF last'.op = "Write"
                         THEN Append2(write_buffer,
                                      Fill(last'.args.c, last'.args.size))
                         ELSE write_buffer
                    /\ to_string(partNumber') = r.partNumber
                    /\ partNumber' = partNumber
                    /\ eTags' = eTags
                    /\ uploadId' = r.uploadId
                    /\ last'.ret = 0 - ENOENT
            /\ (r.kind = "complete" /\ ~r.ok)
                 => /\ write_buffer' = <<>>
                    /\ partNumber' = r.partNumber
                    /\ eTags' = r.eTags
                    /\ uploadId' = r.uploadId /\ uploadId' = uploadId
                    /\ last'.ret = 0 - ENOENT]_vars

\* a Write whose threshold flush failed, the payload still buffered
C3_Witness ==
    /\ last.op = "Write"
    /\ FailedRequest(last, "part")
    /\ Length(write_buffer) > Threshold

\* the first four calls on the handle are three Writes of 60,000,000 bytes
\* and a Close, and every request they sent succeeded
ThreeWritesAndClose(h) ==
    /\ Len(h) = 4
    /\ \A i \in 1..3 : h[i].op = "Write" /\ h[i].args.size = 60000000
    /\ h[4].op = "Close"
    /\ \A i \in 1..4 : \A j \in 1..Len(h[i].reqs) : h[i].reqs[j].ok

UploadRequests(call) ==
    SelectSeq(call.reqs, LAMBDA r : r.kind \in {"part", "complete"})

\* C4: three Writes of 60,000,000 bytes and a Close, every request
\* succeeding, send no part during the first Write, part 1 (120,000,000
\* bytes) during the second, none during the third, part 2 (60,000,000
\* bytes) and then one completion request with the two ETags in part order
\* during Close.  In general a Write that gets to append sends a part
\* exactly when the buffer after appending exceeds the threshold, and a
\* Close with a non-empty buffer first uploads it as the next part.
C4_ThreeWritesScenario ==
    [][/\ ThreeWritesAndClose(hist') =>
            LET h == hist'
                p1 == UploadRequests(h[2])[1]
                p2 == UploadRequests(h[4])[1]
                done == UploadRequests(h[4])[2]
            IN /\ UploadRequests(h[1]) = <<>>
               /\ Len(UploadRequests(h[2])) = 1
               /\ p1.kind = "part" /\ p1.partNumber = <<"1">>
               /\ p1.body = <<[c |-> "b", n |-> 120000000]>>
               /\ UploadRequests(h[3]) = <<>>
               /\ Len(UploadRequests(h[4])) = 2
               /\ p2.kind = "part" /\ p2.partNumber = <<"2">>
               /\ p2.body = <<[c |-> "b", n |-> 60000000]>>
               /\ done.kind = "complete"
               /\ done.eTags = <<StoreETag(p1.body), StoreETag(p2.body)>>
               /\ write_buffer' = <<>>
       /\ (last'.op = "Write" /\ ~FailedRequest(last', "init")) =>
            /\ Len(Requests(last'.reqs, "part")) =
                 IF Length(write_buffer) + last'.args.size > 100000000
                 THEN 1 ELSE 0
            /\ ~Sends(last', "complete")
       /\ (last'.op = "Close" /\ write_buffer # <<>>) =>
            /\ last'.reqs[1].kind = "part"
            /\ last'.reqs[1].body = write_buffer
            /\ last'.reqs[1].partNumber = to_string(partNumber)
            /\ \A j \in 2..Len(last'.reqs) : last'.reqs[j].kind = "complete"
            /\ Len(last'.reqs) <= 2]_vars

\* the scenario has run
C4_Witness == ThreeWritesAndClose(hist)

\* C5: a Write after whose append the buffer holds exactly 100,000,000
\* bytes sends no part; one after whose append it holds 100,000,001 bytes
\* or more sends exactly one part, the whole buffer.
C5_ThresholdIsStrict ==
    [][(last'.op = "Write" /\ ~FailedRequest(last', "init")) =>
         LET appended == Append2(write_buffer,
                                 Fill(last'.args.c, last'.args.size))
             parts == Requests(last'.reqs, "part")
         IN /\ Length(appended) = 100000000 =>
                 (parts = <<>> /\ write_buffer' = appended)
            /\ Length(appended) >= 100000001 =>
                 (Len(parts) = 1 /\ parts[1].body = appended)]_vars

\* a Write that left 100,000,001 bytes in the buffer and flushed them
C5_Witness ==
    /\ last.op = "Write"
    /\ Sends(last, "part")
    /\ Length(Requests(last.reqs, "part")[1].body) = 100000001

\* the flags that make an open one for creation or writing
HasFlag(Oflag, bit) == (Oflag \div bit) % 2 = 1
OpensForWriting(Oflag) == \E bit \in {1, 2, 64, 512, 1024} : HasFlag(Oflag, bit)

MappedError(code) ==
    CASE code = 404 -> 0 - 2
      [] code = 500 -> 0 - 5
      [] code = 403 -> 0 - 1
      [] code = 0 -> 0 - 5
      [] OTHER -> 0 - 5

\* C7: a failed Fstat probe returns the error its HTTP status alone
\* decides (404 -ENOENT, 500 -EIO, 403 -EPERM, any other status -EIO, no
\* status -EIO) and leaves contentLength and lastModified as they were.
C7_FstatFailure ==
    [][(last'.op = "Fstat" /\ FailedRequest(last', "head")) =>
         /\ last'.ret = MappedError(last'.reqs[1].code)
         /\ last'.fault = "none"
         /\ content_length' = content_length
         /\ last_modified' = last_modified]_vars

\* an Fstat that failed with 403 on a handle whose size an earlier Fstat set
C7_Witness ==
    /\ last.op = "Fstat"
    /\ FailedRequest(last, "head")
    /\ last.reqs[1].code = 403
    /\ last.ret = 0 - EPERM
    /\ content_length = 1024

\* C8 as claimed: Open, Write, Close and Fstat all return the error the
\* status table gives for the failed request.
C8_SameMappingEverywhere ==
    \A i \in 1..Len(last.reqs) :
      (last.op \in {"Open", "Write", "Close", "Fstat"} /\ ~last.reqs[i].ok)
        => last.ret = MappedError(last.reqs[i].code)

\* the latest Write among the calls h, 0 when there is none
LatestWrite(h) ==
    IF \E i \in 1..Len(h) : h[i].op = "Write"
    THEN CHOOSE i \in 1..Len(h) :
           h[i].op = "Write" /\ \A j \in (i + 1)..Len(h) : h[j].op # "Write"
    ELSE 0

\* C9: a Write whose initiation request fails returns a negative error,
\* leaves uploadId empty, appends nothing and sends no part; the next Write
\* starts with an initiation request.
C9_FailedInitiation ==
    [][/\ (last'.op = "Write" /\ FailedRequest(last', "init")) =>
            /\ last'.ret < 0
            /\ uploadId' = ""
            /\ write_buffer' = write_buffer
            /\ partNumber' = partNumber /\ eTags' = eTags
            /\ ~Sends(last', "part")
       /\ (/\ last'.op = "Write"
           /\ LatestWrite(hist) # 0
           /\ FailedRequest(hist[LatestWrite(hist)], "init")) =>
            (last'.reqs # <<>> /\ last'.reqs[1].kind = "init")]_vars

\* a Write whose initiation failed, then a Write that initiated the upload
C9_Witness ==
    /\ Len(hist) >= 2
    /\ hist[1].op = "Write" /\ FailedRequest(hist[1], "init")
    /\ hist[2].op = "Write"
    /\ hist[2].reqs[1].kind = "init" /\ hist[2].reqs[1].ok
    /\ uploadId # ""

\* C10 as claimed: Read sends exactly one ranged download for
\* [offset, offset+size); on success it returns the number of bytes copied,
\* the length of the body, never more than size; on failure it returns 0; it
\* changes no handle state.
C10_ReadResult ==
    [][last'.op = "Read" =>
         /\ Len(last'.reqs) = 1
         /\ last'.reqs[1].kind = "get"
         /\ last'.reqs[1].offset = last'.args.offset
         /\ last'.reqs[1].size = last'.args.size
         /\ last'.fault = "none"
         /\ last'.reqs[1].ok =>
              /\ last'.ret = Length(last'.out)
              /\ last'.ret <= last'.args.size
         /\ ~last'.reqs[1].ok => last'.ret = 0
         /\ UNCHANGED <<write_buffer, partNumber, eTags, uploadId, m_object>>]_vars

RequestKinds == {"head", "get", "init", "part", "complete"}

\* C11 as claimed: within one call each kind of request is sent at most
\* once, and a failed request is the last request of the call, which returns
\* a negative status.
C11_FailedRequestEndsCallNegative ==
    /\ \A kind \in RequestKinds : Len(Requests(last.reqs, kind)) <= 1
    /\ \A i \in 1..Len(last.reqs) :
         ~last.reqs[i].ok => (i = Len(last.reqs) /\ last.ret < 0)

\* C11 as amended: within one call each kind of request is sent at most
\* once, and a failed request is the last request of the call, which returns
\* a negative status from Open, Write, Fstat and Close and 0 from Read.
C11_FailedRequestEndsCall ==
    /\ \A kind \in RequestKinds : Len(Requests(last.reqs, kind)) <= 1
    /\ \A i \in 1..Len(last.reqs) :
         ~last.reqs[i].ok =>
           /\ i = Len(last.reqs)
           /\ IF last.op = "Read" THEN last.ret = 0 ELSE last.ret < 0

\* a Close whose flush succeeded and whose completion request failed
C11_Witness ==
    /\ last.op = "Close"
    /\ Len(last.reqs) = 2
    /\ last.reqs[1].ok /\ ~last.reqs[2].ok
    /\ last.ret < 0

\* C12 as claimed: a content-length line whose value is the integer N sets
\* contentLength to N; a content-length line whose value is not an integer
\* is ignored: Fstat completes normally, returns 0 and contentLength keeps
\* the value it had.
C12_BadContentLengthIgnored ==
    [][last'.op = "Fstat" =>
         /\ last'.args.headers = HdrFull => content_length' = 1024
         /\ last'.args.headers = HdrLower => content_length' = 7
         /\ last'.args.headers = HdrBadLength =>
              /\ last'.fault = "none"
              /\ last'.ret = 0
              /\ content_length' = content_length]_vars

\* C13: in every reachable state, those reached through failed initiation,
\* failed part uploads and failed completions included, partNumber is
\* len(eTags) + 1.
C13_PartNumberCountsETags == partNumber = Len(eTags) + 1

\* a part uploaded, and later a part upload that failed
C13_Witness ==
    /\ FailedRequest(last, "part")
    /\ partNumber = 2
    /\ Len(eTags) = 1

Initiated(h) ==
    \E i \in 1..Len(h) :
      \E j \in 1..Len(h[i].reqs) : h[i].reqs[j].kind = "init" /\ h[i].reqs[j].ok
FlushAttempted(h) == \E i \in 1..Len(h) : Sends(h[i], "part")

C15_UploadIdSetOnce ==
    [][/\ uploadId # "" => (uploadId' = uploadId /\ ~Sends(last', "init"))
       /\ \A i \in 1..Len(last'.reqs) :
            last'.reqs[i].kind \in {"part", "complete"} =>
              (last'.reqs[i].uploadId = uploadId' /\ uploadId' # "")]_vars

\* a Write on an initiated handle that uploaded a part under the upload id
C15_Witness ==
    /\ last.op = "Write"
    /\ Len(last.reqs) = 1
    /\ last.reqs[1].kind = "part"
    /\ last.reqs[1].uploadId = uploadId
    /\ uploadId # ""

RECURSIVE AllRequests(_)
AllRequests(h) == IF h = <<>> THEN <<>> ELSE h[1].reqs \o AllRequests(Tail(h))

\* the successful part uploads of the handle, in request order
UploadedParts(h) ==
    SelectSeq(AllRequests(h), LAMBDA r : r.kind = "part" /\ r.ok)

\* the ETags the store returned for them
UploadedETags(h) ==
    [k \in 1..Len(UploadedParts(h)) |->
       ExtractETag(PartResponse(UploadedParts(h)[k].body))]

\* C16 as claimed: the completion request of Close carries the ETags of the
\* uploaded parts in upload order and a part count equal to their number.
C16_CompletionCountsParts ==
    [][\A i \in 1..Len(last'.reqs) :
         last'.reqs[i].kind = "complete" =>
           /\ last'.reqs[i].eTags = UploadedETags(hist')
           /\ last'.reqs[i].partNumber = Len(last'.reqs[i].eTags)]_vars

\* C16 as amended: the completion request of Close carries the ETags of
\* the uploaded parts in upload order and partNumber, the number of the
\* next part, which is their number plus one.
C16_CompletionCarriesNextPartNumber ==
    [][\A i \in 1..Len(last'.reqs) :
         last'.reqs[i].kind = "complete" =>
           /\ last'.reqs[i].eTags = UploadedETags(hist')
           /\ last'.reqs[i].eTags = eTags'
           /\ last'.reqs[i].partNumber = Len(last'.reqs[i].eTags) + 1
           /\ last'.reqs[i].partNumber = partNumber']_vars

\* a Close that finalized two parts with different ETags
C16_Witness ==
    /\ last.op = "Close"
    /\ \E i \in 1..Len(last.reqs) :
         /\ last.reqs[i].kind = "complete"
         /\ Len(last.reqs[i].eTags) = 2
         /\ last.reqs[i].eTags[1] # last.reqs[i].eTags[2]
         /\ last.reqs[i].partNumber = 3

\* the resolver named a bucket for the path
Resolved(res) == res.rv = 0 /\ res.ai # NoAccessInfo /\ res.ai.bucket # ""

\* C17 as claimed: Read, Write, Fstat and Close leave objectKey and
\* accessInfo unchanged, and so does an Open that returns an error or that
\* is made on a handle on which they are already set.
C17_SetOnceByOpen ==
    [][/\ last'.op # "Open" => UNCHANGED <<m_ai, m_object>>
       /\ (last'.op = "Open" /\ (last'.ret < 0 \/ m_ai.bucket # ""))
            => UNCHANGED <<m_ai, m_object>>]_vars

\* C17 as amended: Read, Write, Fstat and Close leave objectKey and
\* accessInfo unchanged; an Open whose path resolves to a bucket stores the
\* resolved access info and object, whether or not they were set before and
\* whether or not its probe then fails; an Open whose path does not resolve
\* leaves them unchanged.
C17_SetByEveryResolvedOpen ==
    [][/\ last'.op # "Open" => UNCHANGED <<m_ai, m_object>>
       /\ last'.op = "Open" =>
            IF Resolved(last'.args.res)
            THEN m_ai' = last'.args.res.ai /\ m_object' = last'.args.res.object
            ELSE last'.ret < 0 /\ UNCHANGED <<m_ai, m_object>>]_vars

\* an Open for reading whose probe failed and which stored the second path
C17_Witness ==
    /\ last.op = "Open"
    /\ last.ret = 0 - ENOENT
    /\ FailedRequest(last, "head")
    /\ m_ai = [bucket |-> "b2"]
    /\ m_object = "o2"

\* the part uploads of the handle, failed ones included, in request order
PartRequests(h) == Requests(AllRequests(h), "part")

\* C18: the successfully uploaded parts carry the numbers 1, 2, 3, ... in
\* request order; the first part upload carries 1; a call adds to
\* partNumber one for each part it uploaded and nothing else; a part upload
\* that follows a failed one carries the failed one's number.
C18_PartNumbersInSequence ==
    [][/\ \A k \in 1..Len(UploadedParts(hist')) :
            UploadedParts(hist')[k].partNumber = to_string(k)
       /\ PartRequests(hist') # <<>> =>
            PartRequests(hist')[1].partNumber = to_string(1)
       /\ partNumber' = partNumber + Len(UploadedParts(<<last'>>))
       /\ \A k \in 1..(Len(PartRequests(hist')) - 1) :
            ~PartRequests(hist')[k].ok =>
              PartRequests(hist')[k + 1].partNumber
                = PartRequests(hist')[k].partNumber]_vars

\* a failed part upload and its repetition, which succeeded as part 1
C18_Witness ==
    /\ Len(PartRequests(hist)) = 2
    /\ ~PartRequests(hist)[1].ok
    /\ PartRequests(hist)[2].ok
    /\ PartRequests(hist)[2].partNumber = to_string(1)
    /\ partNumber = 2

\* C19 as claimed: a Write that returns a negative error leaves writeBuffer
\* as it was before the call.
C19_FailedWriteAcceptsNothing ==
    [][(last'.op = "Write" /\ last'.ret < 0)
         => write_buffer' = write_buffer]_vars

\* the bodies of the uploaded parts, one after the other
RECURSIVE UploadedBytes(_)
UploadedBytes(h) ==
    IF UploadedParts(h) = <<>> THEN <<>>
    ELSE Append2(UploadedBytes(SubSeq(h, 1, Len(h) - 1)),
                 IF UploadedParts(<<h[Len(h)]>>) = <<>> THEN <<>>
                 ELSE UploadedParts(<<h[Len(h)]>>)[1].body)

\* the payloads of the Writes that returned their size, one after the other
RECURSIVE AcceptedBytes(_)
AcceptedBytes(h) ==
    IF h = <<>> THEN <<>>
    ELSE Append2(AcceptedBytes(SubSeq(h, 1, Len(h) - 1)),
                 IF h[Len(h)].op = "Write" /\ h[Len(h)].ret >= 0
                 THEN Fill(h[Len(h)].args.c, h[Len(h)].args.size)
                 ELSE <<>>)

\* C20 as claimed: after a Close that returns 0, the bodies of the uploaded
\* parts, in part order, are together the payloads of the Writes that
\* returned a non-negative value, in call order, and writeBuffer is empty.
C20_UploadedIsAccepted ==
    [][(last'.op = "Close" /\ last'.ret = 0) =>
         /\ UploadedBytes(hist') = AcceptedBytes(hist')
         /\ write_buffer' = <<>>]_vars

==========================================================================
